---------------------------- MODULE Spec2Model ----------------------------
(* Device registry, discovery, name lookup and command dispatch of the     *)
(* cast-device tool servers (GoogleHomeMCPServer in mcp_google_home.py and  *)
(* UnifiedMCPServer in mcp_server.py) and the tools of XiaozhiMusicServer   *)
(* in music_server.py, as a state machine.                                  *)
(*                                                                          *)
(* Strings are sequences of one-character strings, so that str.lower() and  *)
(* urllib.parse.quote() are computed character by character.                *)
(* A tool invocation runs on a single-threaded cooperative event loop: a    *)
(* handler without an await is one atomic action; discover_devices has one  *)
(* await (the scan in the executor thread) and is three steps; a data or    *)
(* music tool is suspended at each of its HTTP requests and, when the       *)
(* connection was kept alive, once more where it leaves its HTTP client.    *)
EXTENDS Integers, Sequences, FiniteSets, Bags, TLC

(***************************************************************************)
(* Bounds of the model                                                     *)
(***************************************************************************)
MaxCalls == 2       \* invocations suspended at an await at once
MaxClock == 1       \* wall-clock ticks

(***************************************************************************)
(* Strings                                                                 *)
(***************************************************************************)
\* str.lower() on one character, for the letters of the strings of the model
LowerChar(c) ==
    CASE c = "A" -> "a"
      [] c = "B" -> "b"
      [] c = "C" -> "c"
      [] c = "H" -> "h"
      [] c = "L" -> "l"
      [] c = "M" -> "m"
      [] OTHER -> c

\* str.lower()
Lower(s) == [i \in DOMAIN s |-> LowerChar(s[i])]

(***************************************************************************)
(* Argument values: a JSON value is a string, a number, or absent from the *)
(* argument mapping.                                                       *)
(***************************************************************************)
Str(s) == [t |-> "str", v |-> s, n |-> 0]
Num(k) == [t |-> "num", v |-> <<>>, n |-> k]
Absent == [t |-> "absent", v |-> <<>>, n |-> 0]
\* JSON null: None
Null == [t |-> "null", v |-> <<>>, n |-> 0]
\* A number whose hundredfold is no finite float: 1e307 and above, and the
\* inf that json.loads makes of 1e999
Huge == [t |-> "huge", v |-> <<>>, n |-> 0]

\* dict.get(key, default) on one key of the argument mapping
Get(value, default) == IF value.t = "absent" THEN default ELSE value

(***************************************************************************)
(* The devices of the local network, as the control library reports them.  *)
(* A device handle is identified by the uuid of its device.                *)
(***************************************************************************)
DeviceIds == {"u1", "u2"}

\* cast.name
name_of(d) ==
    CASE d = "u1" -> <<"A", "b">>
      [] OTHER    -> <<"b">>

\* cast.device.friendly_name
friendly_name_of(d) ==
    CASE d = "u1" -> <<"B">>
      [] OTHER    -> <<"C">>

NotFound == "none"

\* The lists a scan can return: any devices of the network, in any order
Injective(s) == \A i, j \in DOMAIN s : s[i] = s[j] => i = j
ScanLists ==
    {s \in UNION {[1..k -> DeviceIds] : k \in 0..Cardinality(DeviceIds)} : Injective(s)}

(***************************************************************************)
(* Device Locator                                                          *)
(***************************************************************************)
\* A mutant of Matches: only the internal name is compared.
MatchesNameOnly(cast, device_name) ==
    Lower(name_of(cast)) = Lower(device_name)

\* A mutant of Matches: only the display name is compared.
MatchesFriendlyOnly(cast, device_name) ==
    Lower(friendly_name_of(cast)) = Lower(device_name)

\* A mutant of Matches: the comparison is case-sensitive.
MatchesExactCase(cast, device_name) ==
    \/ name_of(cast) = device_name
    \/ friendly_name_of(cast) = device_name

\* The condition of the loop body of _find_device
Matches(cast, device_name) ==
    \/ Lower(name_of(cast)) = Lower(device_name)
    \/ Lower(friendly_name_of(cast)) = Lower(device_name)

\* A mutant of FindFrom: a later match replaces an earlier one.
RECURSIVE FindLastFrom(_, _, _)
FindLastFrom(reg, device_name, i) ==
    IF i > Len(reg) THEN NotFound
    ELSE LET later == FindLastFrom(reg, device_name, i + 1)
         IN IF later # NotFound THEN later
            ELSE IF Matches(reg[i], device_name) THEN reg[i]
            ELSE NotFound

RECURSIVE FindFrom(_, _, _)
FindFrom(reg, device_name, i) ==
    IF i > Len(reg) THEN NotFound
    ELSE IF Matches(reg[i], device_name) THEN reg[i]
    ELSE FindFrom(reg, device_name, i + 1)

\* _find_device on a string: the first match in registry order, or None
_find_device(reg, device_name) == FindFrom(reg, device_name, 1)

\* device_name.lower() raises AttributeError for a value that is no string;
\* it is evaluated in the first iteration, so only on a non-empty registry.
FindRaises(reg, value) == value.t # "str" /\ reg # <<>>

(***************************************************************************)
(* Device layer: what a handler asks of the control library                *)
(***************************************************************************)
NoArg == [url |-> <<>>, content_type |-> <<>>, title |-> Absent, volume |-> Absent]
DeviceCall(h, op, arg) == [h |-> h, op |-> op, arg |-> arg]

\* The device-layer call of a handler that raises, if any
Faults == {"none", "wait", "command", "block_until_active"}

\* The statements of a try block on a resolved device, in order: steps[i] is a
\* device-layer call, and the call named by `fault` raises. The calls made are
\* those up to and including the one that raised.
RECURSIVE Attempt(_, _, _)
Attempt(steps, fault, i) ==
    IF i > Len(steps) THEN [ok |-> TRUE, calls |-> <<>>]
    ELSE IF steps[i].raises = fault
         THEN [ok |-> FALSE, calls |-> <<steps[i].call>>]
         ELSE LET rest == Attempt(steps, fault, i + 1)
              IN [ok |-> rest.ok, calls |-> <<steps[i].call>> \o rest.calls]

Step(call, raises) == [call |-> call, raises |-> raises]

(***************************************************************************)
(* Operations. An operation returns an envelope or raises to its caller.   *)
(***************************************************************************)
Return(result, calls) == [raised |-> FALSE, result |-> result, cause |-> "", calls |-> calls]
Raise(cause, calls) == [raised |-> TRUE, result |-> [success |-> FALSE], cause |-> cause,
                        calls |-> calls]

\* A mutant of Failure: the failure is reported under "message".
FailureAsMessage(cause) == [success |-> FALSE, message |-> cause]

\* except Exception as e: return {"success": False, "error": str(e)}
Failure(cause) == [success |-> FALSE, error |-> cause]

\* The arguments of a tool call; map is FALSE when they are no mapping.
Args(map, device_name, timeout, volume, media_url, content_type, title, text, language) ==
    [map |-> map, device_name |-> device_name, timeout |-> timeout, volume |-> volume,
     media_url |-> media_url, content_type |-> content_type, title |-> title,
     text |-> text, language |-> language, city |-> Absent]
NoArgs == Args(FALSE, Absent, Absent, Absent, Absent, Absent, Absent, Absent, Absent)
EmptyArgs == Args(TRUE, Absent, Absent, Absent, Absent, Absent, Absent, Absent, Absent)
ForDevice(device_name) ==
    Args(TRUE, device_name, Absent, Absent, Absent, Absent, Absent, Absent, Absent)

NotAString == Num(7)

\* The outcome of the lines of a device command up to `if not cast`:
\*   args.get("device_name", "") is outside the try in both servers;
\*   _find_device is inside the try in mcp_google_home.py and outside it in
\*   mcp_server.py.
Locate(srv, reg, args) ==
    IF ~args.map THEN [kind |-> "raise", cast |-> NotFound]
    ELSE LET device_name == Get(args.device_name, Str(<<>>))
         IN IF FindRaises(reg, device_name)
            THEN [kind |-> IF srv = "google_home" THEN "caught" ELSE "raise",
                  cast |-> NotFound]
            ELSE LET cast == _find_device(reg, device_name.v)
                 IN IF cast = NotFound THEN [kind |-> "notfound", cast |-> NotFound]
                    ELSE [kind |-> "found", cast |-> cast]

\* A mutant of DeviceCommand: the device is readied before the lookup result
\* is tested, so a device-layer call is made on the first registry entry.
DeviceCommandWaitFirst(srv, reg, args, steps_of, fault, success) ==
    LET loc == Locate(srv, reg, args)
    IN IF loc.kind = "raise" THEN Raise("AttributeError", <<>>)
       ELSE IF loc.kind = "caught" THEN Return(Failure("AttributeError"), <<>>)
       ELSE IF loc.kind = "notfound"
            THEN Return(Failure("Device not found"),
                        IF reg = <<>> THEN <<>>
                        ELSE <<DeviceCall(reg[1], "wait", NoArg)>>)
       ELSE LET a == Attempt(steps_of[loc.cast], fault, 1)
            IN IF a.ok THEN Return(success, a.calls)
               ELSE Return(Failure("DeviceError"), a.calls)

\* The shape shared by the seven device commands: resolve the device, return
\* the not-found envelope without touching the device layer, else run the
\* try block. steps_of[cast] are the device-layer calls of the try block.
DeviceCommand(srv, reg, args, steps_of, fault, success) ==
    LET loc == Locate(srv, reg, args)
    IN IF loc.kind = "raise" THEN Raise("AttributeError", <<>>)
       ELSE IF loc.kind = "caught" THEN Return(Failure("AttributeError"), <<>>)
       ELSE IF loc.kind = "notfound" THEN Return(Failure("Device not found"), <<>>)
       ELSE LET a == Attempt(steps_of[loc.cast], fault, 1)
            IN IF a.ok THEN Return(success, a.calls)
               ELSE Return(Failure("DeviceError"), a.calls)

Wait(cast) == Step(DeviceCall(cast, "wait", NoArg), "wait")

\* get_device_status; media is whether a media session is active
get_device_status(srv, reg, args, fault, media) ==
    LET steps_of == [cast \in DeviceIds |->
            <<Wait(cast), Step(DeviceCall(cast, "status", NoArg), "command")>>]
        status == [media |-> media]
    IN DeviceCommand(srv, reg, args, steps_of, fault,
           IF srv = "google_home"
           THEN [success |-> TRUE, status |-> status, message |-> "Status retrieved"]
           ELSE [success |-> TRUE, status |-> status])

\* A mutant of play_media: success is returned once the command was issued.
play_media_unconfirmed(srv, reg, args, fault) ==
    LET media_url == Get(args.media_url, Str(<<>>))
        content_type == Get(args.content_type, Str(<<"audio/mp3">>))
        title == Get(args.title, Str(<<>>))
        steps_of == [cast \in DeviceIds |->
            <<Wait(cast),
              Step(DeviceCall(cast, "play_media",
                       [NoArg EXCEPT !.url = media_url.v,
                                     !.content_type = content_type.v,
                                     !.title = title]), "command")>>]
    IN DeviceCommand(srv, reg, args, steps_of, fault,
           IF srv = "google_home"
           THEN [success |-> TRUE, device |-> args.device_name, media_url |-> media_url,
                 message |-> "Playing media"]
           ELSE [success |-> TRUE, message |-> "Playing media"])

\* play_media
play_media(srv, reg, args, fault) ==
    LET media_url == Get(args.media_url, Str(<<>>))
        content_type == Get(args.content_type, Str(<<"audio/mp3">>))
        title == Get(args.title, Str(<<>>))
        steps_of == [cast \in DeviceIds |->
            <<Wait(cast),
              Step(DeviceCall(cast, "play_media",
                       [NoArg EXCEPT !.url = media_url.v,
                                     !.content_type = content_type.v,
                                     !.title = title]), "command"),
              Step(DeviceCall(cast, "block_until_active", NoArg), "block_until_active")>>]
    IN DeviceCommand(srv, reg, args, steps_of, fault,
           IF srv = "google_home"
           THEN [success |-> TRUE, device |-> args.device_name, media_url |-> media_url,
                 message |-> "Playing media"]
           ELSE [success |-> TRUE, message |-> "Playing media"])

\* A mutant of pause_media: the command is sent before the device is ready.
pause_media_unready(srv, reg, args, fault) ==
    LET steps_of == [cast \in DeviceIds |->
            <<Step(DeviceCall(cast, "pause", NoArg), "command"), Wait(cast)>>]
    IN DeviceCommand(srv, reg, args, steps_of, fault,
           [success |-> TRUE, message |-> "Paused playback"])

\* pause_media
pause_media(srv, reg, args, fault) ==
    LET steps_of == [cast \in DeviceIds |->
            <<Wait(cast), Step(DeviceCall(cast, "pause", NoArg), "command")>>]
    IN DeviceCommand(srv, reg, args, steps_of, fault,
           [success |-> TRUE, message |-> "Paused playback"])

\* A mutant of resume_media: the command sent is pause.
resume_media_pause(srv, reg, args, fault) ==
    LET steps_of == [cast \in DeviceIds |->
            <<Wait(cast), Step(DeviceCall(cast, "pause", NoArg), "command")>>]
    IN DeviceCommand(srv, reg, args, steps_of, fault,
           [success |-> TRUE, message |-> "Resumed playback"])

\* resume_media: cast.media_controller.play()
resume_media(srv, reg, args, fault) ==
    LET steps_of == [cast \in DeviceIds |->
            <<Wait(cast), Step(DeviceCall(cast, "play", NoArg), "command")>>]
    IN DeviceCommand(srv, reg, args, steps_of, fault,
           [success |-> TRUE, message |-> "Resumed playback"])

\* stop_media
stop_media(srv, reg, args, fault) ==
    LET steps_of == [cast \in DeviceIds |->
            <<Wait(cast), Step(DeviceCall(cast, "stop", NoArg), "command")>>]
    IN DeviceCommand(srv, reg, args, steps_of, fault,
           [success |-> TRUE, message |-> "Stopped playback"])

Digits == {"0", "1", "2", "3", "4", "5", "6", "7", "8", "9"}

\* int(volume * 100) in the message of the success envelope of set_volume
\* raises: None * 100 is a TypeError; a string times 100 is the string a
\* hundred times over, a numeral only when the string is made of digits
\* (ValueError otherwise); an infinite product is an OverflowError.
PercentRaises(volume) ==
    CASE volume.t = "num" -> FALSE
      [] volume.t = "str" ->
             volume.v = <<>> \/ \E i \in DOMAIN volume.v : volume.v[i] \notin Digits
      [] OTHER -> TRUE

\* The exception int(volume * 100) raises
PercentError(volume) ==
    CASE volume.t = "null" -> "TypeError"
      [] volume.t = "str" -> "ValueError"
      [] OTHER -> "OverflowError"

\* The return of set_volume after the try block ran to its return statement:
\* the envelope is built after cast.set_volume(volume) returned, and what
\* building it raises is caught by the except branch of the same try.
SetVolumeReturn(out, volume) ==
    IF ~out.raised /\ out.result.success /\ PercentRaises(volume)
    THEN Return(Failure(PercentError(volume)), out.calls)
    ELSE out

\* set_volume; volumes are in hundredths, the default 0.5 is 50
set_volume(srv, reg, args, fault) ==
    LET volume == Get(args.volume, Num(50))
        steps_of == [cast \in DeviceIds |->
            <<Wait(cast),
              Step(DeviceCall(cast, "set_volume", [NoArg EXCEPT !.volume = volume]),
                   "command")>>]
    IN SetVolumeReturn(
           DeviceCommand(srv, reg, args, steps_of, fault,
               IF srv = "google_home"
               THEN [success |-> TRUE, device |-> args.device_name, volume |-> volume,
                     message |-> "Set volume"]
               ELSE [success |-> TRUE, volume |-> volume, message |-> "Set volume"]),
           volume)

\* urllib.parse.quote on one character (safe = "/")
QuoteChar(c) ==
    CASE c = " " -> <<"%", "2", "0">>
      [] c = "&" -> <<"%", "2", "6">>
      [] c = "%" -> <<"%", "2", "5">>
      [] c = "à" -> <<"%", "C", "3", "%", "A", "0">>
      [] OTHER   -> <<c>>

\* A mutant of Quote: the text is put into the URL as it is.
QuoteNothing(s) == s

\* urllib.parse.quote
RECURSIVE Quote(_)
Quote(s) == IF s = <<>> THEN <<>> ELSE QuoteChar(Head(s)) \o Quote(Tail(s))

\* quote(text) raises TypeError for a text that is neither str nor bytes
QuoteRaises(text) == text.t # "str"

\* The f-string of speak_text
TtsUrl(language, text) ==
    <<"https://translate.google.com/translate_tts?ie=UTF-8&client=tw-ob&tl=">>
        \o language \o <<"&q=">> \o Quote(text)

\* A mutant of speak_text: the audio is announced as audio/mpeg.
speak_text_mpeg(srv, reg, args, fault) ==
    LET text == Get(args.text, Str(<<>>))
        language == Get(args.language, Str(<<"vi-VN">>))
        steps_of == [cast \in DeviceIds |->
            <<Wait(cast),
              Step(DeviceCall(cast, "play_media",
                       [NoArg EXCEPT !.url = TtsUrl(language.v, text.v),
                                     !.content_type = <<"audio/mpeg">>]), "command"),
              Step(DeviceCall(cast, "block_until_active", NoArg), "block_until_active")>>]
    IN IF Locate(srv, reg, args).kind = "found" /\ QuoteRaises(text)
       THEN Return(Failure("TypeError"), <<>>)
       ELSE DeviceCommand(srv, reg, args, steps_of, fault,
                IF srv = "google_home"
                THEN [success |-> TRUE, device |-> args.device_name, text |-> text,
                      language |-> language, message |-> "Speaking text"]
                ELSE [success |-> TRUE, message |-> "Speaking text"])

\* speak_text: the URL is built, and quote(text) evaluated, inside the try,
\* after the not-found return and before cast.wait()
speak_text(srv, reg, args, fault) ==
    LET text == Get(args.text, Str(<<>>))
        language == Get(args.language, Str(<<"vi-VN">>))
        steps_of == [cast \in DeviceIds |->
            <<Wait(cast),
              Step(DeviceCall(cast, "play_media",
                       [NoArg EXCEPT !.url = TtsUrl(language.v, text.v),
                                     !.content_type = <<"audio/mp3">>]), "command"),
              Step(DeviceCall(cast, "block_until_active", NoArg), "block_until_active")>>]
    IN IF Locate(srv, reg, args).kind = "found" /\ QuoteRaises(text)
       THEN Return(Failure("TypeError"), <<>>)
       ELSE DeviceCommand(srv, reg, args, steps_of, fault,
                IF srv = "google_home"
                THEN [success |-> TRUE, device |-> args.device_name, text |-> text,
                      language |-> language, message |-> "Speaking text"]
                ELSE [success |-> TRUE, message |-> "Speaking text"])

NoTime == [set |-> FALSE, at |-> 0]
TimeAt(now) == [set |-> TRUE, at |-> now]

\* The two fields of self the device tools share
Self(reg, ts) == [chromecasts |-> reg, last_discovery_time |-> ts]

\* The summary of one device in list_devices: name, model, host and, in
\* mcp_google_home.py only, uuid
ListSummary(srv, cast) ==
    IF srv = "google_home" THEN [name |-> name_of(cast), uuid |-> cast]
    ELSE [name |-> name_of(cast)]

\* for cast in self.chromecasts: try: devices.append({...}) except: continue
ListLoop(srv, reg, unreadable) ==
    LET readable == SelectSeq(reg, LAMBDA cast : cast \notin unreadable)
    IN [i \in DOMAIN readable |-> ListSummary(srv, readable[i])]

\* ... if self.last_discovery_time else "Never": None and 0 are both falsy
LastDiscovery(ts) ==
    IF ts.set /\ ts.at # 0 THEN [never |-> FALSE, at |-> ts.at]
    ELSE [never |-> TRUE, at |-> 0]

\* if not self.chromecasts: return {...}
NoDevices ==
    [success |-> FALSE, message |-> "No devices found. Please run discovery first.",
     devices |-> <<>>]

\* A mutant of list_devices: once a discovery was made, an empty registry is
\* listed as a success.
list_devices_lenient(srv, reg, ts, unreadable) ==
    LET devices == ListLoop(srv, reg, unreadable)
    IN IF reg = <<>> /\ ~ts.set THEN Return(NoDevices, <<>>)
       ELSE IF srv = "google_home"
       THEN Return([success |-> TRUE, device_count |-> Len(devices), devices |-> devices,
                    last_discovery |-> LastDiscovery(ts),
                    message |-> "Found cached devices"], <<>>)
       ELSE Return([success |-> TRUE, device_count |-> Len(devices), devices |-> devices,
                    last_discovery |-> LastDiscovery(ts)], <<>>)

\* list_devices: `unreadable` are the devices of which reading an attribute
\* raises
list_devices(srv, reg, ts, unreadable) ==
    LET devices == ListLoop(srv, reg, unreadable)
    IN IF reg = <<>> THEN Return(NoDevices, <<>>)
       ELSE IF srv = "google_home"
       THEN Return([success |-> TRUE, device_count |-> Len(devices), devices |-> devices,
                    last_discovery |-> LastDiscovery(ts),
                    message |-> "Found cached devices"], <<>>)
       ELSE Return([success |-> TRUE, device_count |-> Len(devices), devices |-> devices,
                    last_discovery |-> LastDiscovery(ts)], <<>>)

(***************************************************************************)
(* The data tools of mcp_server.py: one outbound HTTP request each. An     *)
(* envelope carries the keys of the envelope of the code; the values that  *)
(* come from the source asked, and the time of day, are abstract.          *)
(***************************************************************************)
HttpOutcomes == {"ok", "error"}

\* get_gold_price
get_gold_price(http) ==
    IF http = "ok"
    THEN Return([success |-> TRUE, timestamp |-> "now", source |-> "BTMC", data |-> "gold",
                 message |-> "Gold price", note |-> "VND"], <<>>)
    ELSE Return([success |-> FALSE, error |-> "HTTPError",
                 message |-> "Cannot get gold price"], <<>>)

\* get_usd_rate
get_usd_rate(http) ==
    IF http = "ok"
    THEN Return([success |-> TRUE, timestamp |-> "now", bank |-> "Vietcombank",
                 data |-> "usd"], <<>>)
    ELSE Return(Failure("HTTPError"), <<>>)

\* get_bitcoin_price
get_bitcoin_price(http) ==
    IF http = "ok"
    THEN Return([success |-> TRUE, timestamp |-> "now", price_usd |-> "usd",
                 price_vnd |-> "vnd", change_24h |-> "change", message |-> "Bitcoin"],
                <<>>)
    ELSE Return(Failure("HTTPError"), <<>>)

HoChiMinh == <<"H", "o", " ", "C", "h", "i", " ", "M", "i", "n", "h">>
CaoLanh == <<"C", "a", "o", " ", "L", "a", "n", "h">>

\* city_name of get_weather: if city.lower() in ["cao lanh", "cao lãnh"]
CityName(city) ==
    IF Lower(city) \in {<<"c", "a", "o", " ", "l", "a", "n", "h">>,
                        <<"c", "a", "o", " ", "l", "ã", "n", "h">>}
    THEN "Cao Lanh"
    ELSE "Ho Chi Minh City"

\* args.get("city", "Ho Chi Minh") and city.lower() are outside the try of
\* get_weather in both servers
WeatherRaises(args) == ~args.map \/ Get(args.city, Str(HoChiMinh)).t # "str"

\* get_weather
get_weather(args, http) ==
    IF WeatherRaises(args) THEN Raise("AttributeError", <<>>)
    ELSE IF http = "ok"
    THEN Return([success |-> TRUE, city |-> CityName(Get(args.city, Str(HoChiMinh)).v),
                 temperature |-> "temperature", humidity |-> "humidity",
                 weather |-> "weather",
                 message |-> <<CityName(Get(args.city, Str(HoChiMinh)).v), "Weather">>],
                <<>>)
    ELSE Return(Failure("HTTPError"), <<>>)

\* get_adapter_status
get_adapter_status(http) ==
    IF http = "ok"
    THEN Return([success |-> TRUE, adapter_url |-> "ADAPTER_URL", status |-> "connected"],
                <<>>)
    ELSE Return([success |-> FALSE, adapter_url |-> "ADAPTER_URL",
                 status |-> "disconnected", error |-> "HTTPError"], <<>>)

(***************************************************************************)
(* The tools of music_server.py                                            *)
(***************************************************************************)
\* search_music, get_audio, get_music_stream, get_lyrics: song and artist are
\* read with args.get outside the try; the requests to the adapter, and a
\* response without the URL looked for, fail inside it.
MusicTool(args, http, found, apology) ==
    IF ~args.map THEN Raise("AttributeError", <<>>)
    ELSE IF http = "ok" THEN Return(found, <<>>)
    ELSE Return([success |-> FALSE, error |-> "HTTPError", message |-> apology], <<>>)

search_music(args, http) ==
    MusicTool(args, http,
        [success |-> TRUE, result |-> "data", message |-> "Found music"],
        "Failed to search for music")
get_audio(args, http) ==
    MusicTool(args, http,
        [success |-> TRUE, title |-> "title", artist |-> "artist",
         audio_url |-> "audio_url", message |-> "Audio URL ready"],
        "Failed to get audio")
get_music_stream(args, http) ==
    MusicTool(args, http,
        [success |-> TRUE, title |-> "title", artist |-> "artist",
         audio_url |-> "audio_url", duration |-> "duration", thumbnail |-> "thumbnail",
         message |-> "Stream URL ready"],
        "Failed to get stream")
get_lyrics(args, http) ==
    MusicTool(args, http,
        [success |-> TRUE, title |-> "title", artist |-> "artist", lyrics |-> "lyrics",
         message |-> "Lyrics found"],
        "Failed to get lyrics")

\* get_gold_price of music_server.py: the success names the page of the
\* source, the failure the time and the pages of four sources
music_get_gold_price(http) ==
    IF http = "ok"
    THEN Return([success |-> TRUE, timestamp |-> "now", source |-> "BTMC", data |-> "gold",
                 message |-> "Gold price", note |-> "VND", url |-> "btmc"], <<>>)
    ELSE Return([success |-> FALSE, error |-> "HTTPError", timestamp |-> "now",
                 message |-> "Cannot get gold price", sources |-> "pages"], <<>>)

\* get_bitcoin_price of music_server.py: the success carries the market
\* capitalisation, the failure a message too
music_get_bitcoin_price(http) ==
    IF http = "ok"
    THEN Return([success |-> TRUE, timestamp |-> "now", price_usd |-> "usd",
                 price_vnd |-> "vnd", change_24h |-> "change",
                 market_cap_usd |-> "market_cap", message |-> "Bitcoin"], <<>>)
    ELSE Return([success |-> FALSE, error |-> "HTTPError",
                 message |-> "Cannot get Bitcoin price"], <<>>)

\* get_weather of music_server.py: more readings in the success, and a
\* message that names the city in the failure
music_get_weather(args, http) ==
    IF WeatherRaises(args) THEN Raise("AttributeError", <<>>)
    ELSE LET city_name == CityName(Get(args.city, Str(HoChiMinh)).v)
         IN IF http = "ok"
            THEN Return([success |-> TRUE, city |-> city_name, timestamp |-> "now",
                         temperature |-> "temperature", feels_like |-> "feels_like",
                         humidity |-> "humidity", precipitation |-> "precipitation",
                         wind_speed |-> "wind_speed", weather |-> "weather",
                         message |-> <<city_name, "Weather">>], <<>>)
            ELSE Return([success |-> FALSE, error |-> "HTTPError",
                         message |-> <<"Cannot get weather for ", city_name>>], <<>>)

\* get_adapter_status of music_server.py: both envelopes carry a message
music_get_adapter_status(http) ==
    IF http = "ok"
    THEN Return([success |-> TRUE, adapter_url |-> "ADAPTER_URL", status |-> "connected",
                 message |-> "Adapter service is running"], <<>>)
    ELSE Return([success |-> FALSE, adapter_url |-> "ADAPTER_URL",
                 status |-> "disconnected", error |-> "HTTPError",
                 message |-> "Failed to connect to adapter service"], <<>>)

\* What the two exchange-rate sources answer: the primary (Vietcombank) an
\* XML with a USD entry, one without, or an error; the fallback a JSON with a
\* VND rate, one without, or an error.
PrimaryOutcomes == {"usd", "no_usd", "error"}
FallbackOutcomes == {"vnd", "no_vnd", "error"}
UsdSources == [primary : PrimaryOutcomes, fallback : FallbackOutcomes]

HttpGet(url) == DeviceCall("http", "get", [NoArg EXCEPT !.url = <<url>>])

\* str(e) of the exception of the primary source
PrimaryError(primary) ==
    IF primary = "no_usd" THEN "USD rate not found" ELSE "HTTPError"

\* A mutant of music_get_usd_rate: the error of the fallback is reported.
music_get_usd_rate_last_error(primary, fallback) ==
    IF primary = "usd"
    THEN Return([success |-> TRUE, timestamp |-> "now", bank |-> "Vietcombank",
                 data |-> "usd", message |-> "USD/VND"], <<HttpGet("vietcombank")>>)
    ELSE IF fallback = "vnd"
    THEN Return([success |-> TRUE, timestamp |-> "now", source |-> "Exchange Rate API",
                 rate |-> "vnd", message |-> "USD/VND"],
                <<HttpGet("vietcombank"), HttpGet("exchangerate-api")>>)
    ELSE Return([success |-> FALSE,
                 error |-> IF fallback = "error" THEN "FallbackError"
                           ELSE PrimaryError(primary),
                 message |-> "Cannot get USD/VND rate"],
                <<HttpGet("vietcombank"), HttpGet("exchangerate-api")>>)

\* get_usd_rate of music_server.py: the fallback is requested in the except
\* branch of the primary; its own failures are swallowed by a bare except.
music_get_usd_rate(primary, fallback) ==
    IF primary = "usd"
    THEN Return([success |-> TRUE, timestamp |-> "now", bank |-> "Vietcombank",
                 data |-> "usd", message |-> "USD/VND"], <<HttpGet("vietcombank")>>)
    ELSE IF fallback = "vnd"
    THEN Return([success |-> TRUE, timestamp |-> "now", source |-> "Exchange Rate API",
                 rate |-> "vnd", message |-> "USD/VND"],
                <<HttpGet("vietcombank"), HttpGet("exchangerate-api")>>)
    ELSE Return([success |-> FALSE, error |-> PrimaryError(primary),
                 message |-> "Cannot get USD/VND rate"],
                <<HttpGet("vietcombank"), HttpGet("exchangerate-api")>>)

(***************************************************************************)
(* Tool Router                                                             *)
(***************************************************************************)
Servers == {"google_home", "unified", "music"}

\* The if/elif chain of call_tool: the operation a tool name is dispatched to
Route(srv, name) ==
    IF srv = "google_home" THEN
        CASE name = "discover_devices"  -> "discover"
          [] name = "list_devices"      -> "list"
          [] name = "get_device_status" -> "status"
          [] name = "play_media"        -> "play"
          [] name = "pause_media"       -> "pause"
          [] name = "resume_media"      -> "resume"
          [] name = "stop_media"        -> "stop"
          [] name = "set_volume"        -> "set_volume"
          [] name = "speak_text"        -> "speak_text"
          [] OTHER                      -> "unknown"
    ELSE IF srv = "music" THEN
        CASE name = "search_music"      -> "search_music"
          [] name = "play_music"        -> "get_audio"
          [] name = "get_music_stream"  -> "get_music_stream"
          [] name = "get_lyrics"        -> "get_lyrics"
          [] name = "get_gold_price"    -> "get_gold_price"
          [] name = "get_usd_rate"      -> "get_usd_rate"
          [] name = "get_bitcoin_price" -> "get_bitcoin_price"
          [] name = "get_weather"       -> "get_weather"
          [] name = "adapter_status"    -> "adapter_status"
          [] OTHER                      -> "unknown"
    ELSE
        CASE name = "get_gold_price"       -> "get_gold_price"
          [] name = "get_usd_rate"         -> "get_usd_rate"
          [] name = "get_bitcoin_price"    -> "get_bitcoin_price"
          [] name = "get_weather"          -> "get_weather"
          [] name = "adapter_status"       -> "adapter_status"
          [] name = "discover_google_home" -> "discover"
          [] name = "list_google_home"     -> "list"
          [] name = "google_home_status"   -> "status"
          [] name = "play_on_google_home"  -> "play"
          [] name = "google_home_pause"    -> "pause"
          [] name = "google_home_resume"   -> "resume"
          [] name = "google_home_stop"     -> "stop"
          [] name = "google_home_volume"   -> "set_volume"
          [] name = "google_home_speak"    -> "speak_text"
          [] OTHER                         -> "unknown"

DeviceCommands == {"status", "play", "pause", "resume", "stop", "set_volume", "speak_text"}
DataTools == {"get_gold_price", "get_usd_rate", "get_bitcoin_price", "get_weather",
              "adapter_status"}
MusicTools == {"search_music", "get_audio", "get_music_stream", "get_lyrics"}

\* The tool names a caller sends: those of both servers and one of neither
ToolNames ==
    {"discover_devices", "list_devices", "get_device_status", "play_media",
     "pause_media", "resume_media", "stop_media", "set_volume", "speak_text",
     "get_gold_price", "get_usd_rate", "get_bitcoin_price", "get_weather",
     "adapter_status",
     "discover_google_home", "list_google_home", "google_home_status",
     "play_on_google_home", "google_home_pause", "google_home_resume",
     "google_home_stop", "google_home_volume", "google_home_speak",
     "search_music", "play_music", "get_music_stream", "get_lyrics",
     "no_such_tool"}

\* The tool names list_tools advertises
list_tools(srv) ==
    IF srv = "google_home"
    THEN {"discover_devices", "list_devices", "get_device_status", "play_media",
          "pause_media", "resume_media", "stop_media", "set_volume", "speak_text"}
    ELSE IF srv = "music"
    THEN {"get_gold_price", "get_usd_rate", "get_bitcoin_price", "get_weather",
          "adapter_status"}
    ELSE {"get_gold_price", "get_usd_rate", "get_bitcoin_price", "get_weather",
          "adapter_status", "discover_google_home", "list_google_home",
          "google_home_status", "play_on_google_home", "google_home_pause",
          "google_home_resume", "google_home_stop", "google_home_volume",
          "google_home_speak"}

\* A mutant of UnknownTool: the failure does not name the tool.
UnknownToolAnonymous(name) == [success |-> FALSE, error |-> <<"Unknown tool: ", "">>]

\* The else branch of call_tool: f"Unknown tool: {name}"
UnknownTool(name) == [success |-> FALSE, error |-> <<"Unknown tool: ", name>>]

\* The operation a tool call without a scan is dispatched to, applied
Dispatch(srv, name, op, reg, ts, args, fault, media, http, unreadable) ==
    CASE op = "list"              -> list_devices(srv, reg, ts, unreadable)
      [] op = "status"            -> get_device_status(srv, reg, args, fault, media)
      [] op = "play"              -> play_media(srv, reg, args, fault)
      [] op = "pause"             -> pause_media(srv, reg, args, fault)
      [] op = "resume"            -> resume_media(srv, reg, args, fault)
      [] op = "stop"              -> stop_media(srv, reg, args, fault)
      [] op = "set_volume"        -> set_volume(srv, reg, args, fault)
      [] op = "speak_text"        -> speak_text(srv, reg, args, fault)
      [] op = "get_gold_price"    ->
             IF srv = "music" THEN music_get_gold_price(http)
             ELSE get_gold_price(http)
      [] op = "get_usd_rate"      ->
             IF srv = "music" THEN music_get_usd_rate(http.primary, http.fallback)
             ELSE get_usd_rate(http)
      [] op = "get_bitcoin_price" ->
             IF srv = "music" THEN music_get_bitcoin_price(http)
             ELSE get_bitcoin_price(http)
      [] op = "search_music"      -> search_music(args, http)
      [] op = "get_audio"         -> get_audio(args, http)
      [] op = "get_music_stream"  -> get_music_stream(args, http)
      [] op = "get_lyrics"        -> get_lyrics(args, http)
      [] op = "get_weather"       ->
             IF srv = "music" THEN music_get_weather(args, http)
             ELSE get_weather(args, http)
      [] op = "adapter_status"    ->
             IF srv = "music" THEN music_get_adapter_status(http)
             ELSE get_adapter_status(http)
      [] OTHER                    -> Return(UnknownTool(name), <<>>)

\* call_tool around an operation: what the operation returned, or, when it
\* raised, {"success": False, "error": str(e)}
call_tool(outcome) ==
    IF outcome.raised THEN Failure(outcome.cause) ELSE outcome.result

(***************************************************************************)
(* State                                                                   *)
(***************************************************************************)
VARIABLES
    server,               \* which server class was constructed
    chromecasts,          \* self.chromecasts
    last_discovery_time,  \* self.last_discovery_time
    clock,                \* time.time(), in seconds
    pc,                   \* position of each discover invocation in flight
    ready,                \* invocations whose scan completed, in completion order
    blocked_by,           \* the invocation occupying the event loop thread, or 0
    last,                 \* the tool call that returned last, until it is delivered
    running,              \* the server process is alive
    started,              \* when each discover invocation in flight was called
    requests              \* the tool calls suspended at an HTTP request or in the
                          \* __aexit__ of their HTTP client (a bag)

vars == <<server, chromecasts, last_discovery_time, clock, pc, ready,
          blocked_by, last, running, started, requests>>

Calls == 1..MaxCalls

NoScan == [kind |-> "none", casts |-> <<>>, browser |-> FALSE, stop_raises |-> FALSE,
           down |-> {}, start |-> 0, overtook |-> FALSE]

\* What a resumed discover went through: what its scan handed over, whether
\* stop_discovery raised, the devices whose wait() raised (for a list: the
\* devices of which reading an attribute raised), and when the
\* invocation was called, and whether an invocation called before it was
\* still in flight when it returned.
Scanned(outcome, down, stop_raises, start, early) ==
    [kind |-> outcome.kind, casts |-> outcome.casts, browser |-> outcome.browser,
     stop_raises |-> stop_raises, down |-> down, start |-> start, overtook |-> early]

\* last: tool and args as received (a resumed discover keeps neither), op the
\* operation dispatched to, raised whether the operation raised to call_tool,
\* result the envelope call_tool returned, calls the device-layer calls the
\* invocation made, scan what the scan of a discover returned, overlapped
\* whether a scan was in progress when the invocation returned, prior the
\* registry and timestamp before the step that returned.
Returned(tool, op, args, outcome, scanned, overlapped, prior) ==
    [tool |-> tool, op |-> op, args |-> args, raised |-> outcome.raised,
     result |-> call_tool(outcome), calls |-> outcome.calls, scan |-> scanned,
     overlapped |-> overlapped, prior |-> prior]
NoReturn ==
    [tool |-> "", op |-> "none", args |-> NoArgs, raised |-> FALSE,
     result |-> [success |-> TRUE], calls |-> <<>>, scan |-> NoScan,
     overlapped |-> FALSE, prior |-> Self(<<>>, NoTime)]

Scanning == {c \in Calls : pc[c] = "scanning"}

\* __init__
Init ==
    /\ server \in Servers
    /\ chromecasts = <<>>
    /\ last_discovery_time = NoTime
    /\ clock = 1
    /\ pc = [c \in Calls |-> "idle"]
    /\ ready = <<>>
    /\ blocked_by = 0
    /\ last = NoReturn
    /\ running = TRUE
    /\ started = [c \in Calls |-> 0]
    /\ requests = EmptyBag

\* A mutant of Escapes: call_tool has no except clause, so what an operation
\* raises leaves the handler.
EscapesWhenRaised(outcome) == outcome.raised

\* Whether what an operation raised leaves call_tool: except Exception catches
\* every exception an operation raises.
Escapes(outcome) == FALSE

\* The wall clock advances. (A response that was returned is taken by the
\* transport before anything else is observed: Tick, DiscoverStart and
\* ScanDone commute with Deliver.)
Tick ==
    /\ last = NoReturn
    /\ clock < 1 + MaxClock
    /\ clock' = clock + 1
    /\ UNCHANGED <<server, chromecasts, last_discovery_time, pc, ready,
                   blocked_by, last, running, started, requests>>

\* The transport takes the response of the tool call that returned.
Deliver ==
    /\ running
    /\ last # NoReturn
    /\ last' = NoReturn
    /\ UNCHANGED <<server, chromecasts, last_discovery_time, clock, pc, ready,
                   blocked_by, running, started, requests>>

(***************************************************************************)
(* Discovery Service                                                       *)
(***************************************************************************)
\* A mutant of run_in_executor: the scan is called inline on the loop thread.
run_inline(c) == c

\* await loop.run_in_executor(None, ...): the scan runs in a worker thread
\* and the coroutine yields, so the event loop thread is not occupied.
run_in_executor(c) == 0

\* The invocations suspended at an await: discovers at their scan and tool
\* calls at an HTTP request or where they leave their HTTP client
Suspended == Cardinality({c \in Calls : pc[c] # "idle"}) + BagCardinality(requests)

DiscoverArgs ==
    {NoArgs, EmptyArgs,
     Args(TRUE, Absent, Num(5), Absent, Absent, Absent, Absent, Absent, Absent)}

\* discover_devices up to its await: timeout = args.get("timeout", 10), outside
\* the try, then the scan is handed to the executor.
DiscoverStart(name, args) ==
    /\ running
    /\ blocked_by = 0
    /\ last = NoReturn
    /\ IF ~args.map
       THEN /\ last' = Returned(name, "discover", args, Raise("AttributeError", <<>>),
                                NoScan, Scanning # {},
                                Self(chromecasts, last_discovery_time))
            /\ running' = ~Escapes(Raise("AttributeError", <<>>))
            /\ UNCHANGED <<pc, blocked_by, started>>
       ELSE \E c \in Calls :
            /\ Suspended < MaxCalls
            /\ pc[c] = "idle"
            /\ \A k \in Calls : k < c => pc[k] # "idle"
            /\ pc' = [pc EXCEPT ![c] = "scanning"]
            /\ blocked_by' = run_in_executor(c)
            /\ started' = [started EXCEPT ![c] = clock]
            /\ UNCHANGED <<last, running>>
    /\ UNCHANGED <<server, chromecasts, last_discovery_time, clock, ready, requests>>

\* pychromecast.get_chromecasts(timeout=timeout) ends in the worker thread and
\* the future of the invocation completes.
ScanDone(c) ==
    /\ running
    /\ last = NoReturn
    /\ pc[c] = "scanning"
    /\ pc' = [pc EXCEPT ![c] = "scanned"]
    /\ ready' = Append(ready, c)
    /\ UNCHANGED <<server, chromecasts, last_discovery_time, clock, blocked_by, last,
                   running, started, requests>>

\* How pychromecast.get_chromecasts ends: it returns a list of devices and
\* the browser it started (or none), or it raises, before or after it has
\* started its browser; a browser it started and did not return is out of
\* the reach of the handler.
ScanOutcomes ==
    {[kind |-> "raise", casts |-> <<>>, browser |-> b] : b \in BOOLEAN}
        \cup {[kind |-> "ok", casts |-> l, browser |-> b] : l \in ScanLists, b \in BOOLEAN}

\* A mutant of RegistryAfterScan: the scan result is merged into the registry.
RegistryMerged(reg, scanned) == reg \o scanned

\* A mutant of RegistryAfterScan: a registry that holds devices is kept.
RegistryFirstWriterWins(reg, scanned) == IF reg # <<>> THEN reg ELSE scanned

\* self.chromecasts = list(chromecasts)
RegistryAfterScan(reg, scanned) == scanned

\* A mutant of TimestampAfterScan: the timestamp is not written with the registry.
TimestampKept(ts, now) == ts

\* A mutant of TimestampAfterScan: the time written is one second old.
TimestampStale(ts, now) == TimeAt(now - 1)

\* A mutant of TimestampAfterScan: the timestamp is reset.
TimestampCleared(ts, now) == NoTime

\* self.last_discovery_time = time.time()
TimestampAfterScan(ts, now) == TimeAt(now)

\* if browser: browser.stop_discovery()
StopBrowser(browser, scanned, stop_raises) ==
    IF ~browser THEN "none"
    ELSE IF stop_raises THEN "raised" ELSE "stopped"

\* The device summary appended in the loop of discover_devices
DeviceSummary(cast) ==
    [name |-> name_of(cast), friendly_name |-> friendly_name_of(cast), uuid |-> cast]

\* A mutant of DiscoverLoop: the loop ends at the first device whose wait()
\* raises.
RECURSIVE DiscoverLoopBreak(_, _, _)
DiscoverLoopBreak(reg, i, down) ==
    IF i > Len(reg) THEN [devices |-> <<>>, calls |-> <<>>]
    ELSE IF reg[i] \in down
         THEN [devices |-> <<>>, calls |-> <<DeviceCall(reg[i], "wait", NoArg)>>]
         ELSE LET rest == DiscoverLoopBreak(reg, i + 1, down)
              IN [devices |-> <<DeviceSummary(reg[i])>> \o rest.devices,
                  calls |-> <<DeviceCall(reg[i], "wait", NoArg)>> \o rest.calls]

\* A mutant of DiscoverLoop: a device whose wait() raises is listed all the same.
RECURSIVE DiscoverLoopKeepsAll(_, _, _)
DiscoverLoopKeepsAll(reg, i, down) ==
    IF i > Len(reg) THEN [devices |-> <<>>, calls |-> <<>>]
    ELSE LET rest == DiscoverLoopKeepsAll(reg, i + 1, down)
         IN [devices |-> <<DeviceSummary(reg[i])>> \o rest.devices,
             calls |-> <<DeviceCall(reg[i], "wait", NoArg)>> \o rest.calls]

\* for cast in self.chromecasts: try: cast.wait(); devices.append(...)
\* except Exception: continue. down are the devices whose wait() raises.
RECURSIVE DiscoverLoop(_, _, _)
DiscoverLoop(reg, i, down) ==
    IF i > Len(reg) THEN [devices |-> <<>>, calls |-> <<>>]
    ELSE LET rest == DiscoverLoop(reg, i + 1, down)
         IN [devices |-> IF reg[i] \in down THEN rest.devices
                         ELSE <<DeviceSummary(reg[i])>> \o rest.devices,
             calls |-> <<DeviceCall(reg[i], "wait", NoArg)>> \o rest.calls]

\* except Exception as e of discover_devices
DiscoveryFailure(cause) ==
    [success |-> FALSE, error |-> cause, message |-> "Failed to discover devices"]

\* A mutant of DiscoverSuccess: finding no device is reported as a failure.
DiscoverSuccessIfFound(devices) ==
    IF devices = <<>> THEN DiscoveryFailure("No devices")
    ELSE [success |-> TRUE, device_count |-> Len(devices), devices |-> devices,
          message |-> "Discovered"]

\* The success return of discover_devices
DiscoverSuccess(devices) ==
    [success |-> TRUE, device_count |-> Len(devices), devices |-> devices,
     message |-> "Discovered"]

\* A mutant of AfterScanError: a failed scan empties the registry.
AfterScanErrorCleared(reg, ts) == Self(<<>>, NoTime)

\* self after the except branch of discover_devices when the scan raised:
\* the branch assigns nothing.
AfterScanError(reg, ts) == Self(reg, ts)

\* discover_devices from the completion of its await to its return. The
\* fields chromecasts and last_discovery_time are those of self afterwards.
discover_devices(reg, ts, outcome, now, down, stop_raises) ==
    IF outcome.kind = "raise"
    THEN [chromecasts |-> AfterScanError(reg, ts).chromecasts,
          last_discovery_time |-> AfterScanError(reg, ts).last_discovery_time,
          outcome |-> Return(DiscoveryFailure("ScanError"), <<>>)]
    ELSE LET newreg == RegistryAfterScan(reg, outcome.casts)
             newts == TimestampAfterScan(ts, now)
             stop == StopBrowser(outcome.browser, outcome.casts, stop_raises)
             stopcall == IF stop = "none" THEN <<>>
                         ELSE <<DeviceCall("browser", "stop_discovery", NoArg)>>
             loop == DiscoverLoop(newreg, 1, down)
         IN [chromecasts |-> newreg, last_discovery_time |-> newts,
             outcome |->
                 IF stop = "raised"
                 THEN Return(DiscoveryFailure("BrowserError"), stopcall)
                 ELSE Return(DiscoverSuccess(loop.devices), stopcall \o loop.calls)]

Range(f) == {f[i] : i \in DOMAIN f}

\* The invocations in flight are numbered in the order they were called: when
\* invocation c returns, those called after it move down one number.
Renumber(f, c, idle) ==
    [k \in Calls |-> IF k < c THEN f[k] ELSE IF k < MaxCalls THEN f[k + 1] ELSE idle]
RenumberQueue(q, c) == [i \in DOMAIN q |-> IF q[i] > c THEN q[i] - 1 ELSE q[i]]

\* The event loop resumes the invocation whose future completed first.
DiscoverResume(outcome, down, stop_raises) ==
    /\ running
    /\ ready # <<>>
    /\ blocked_by \in {0, Head(ready)}
    /\ last = NoReturn
    /\ LET c == Head(ready)
           r == discover_devices(chromecasts, last_discovery_time, outcome, clock,
                                 down, stop_raises)
       IN /\ chromecasts' = r.chromecasts
          /\ last_discovery_time' = r.last_discovery_time
          /\ pc' = Renumber(pc, c, "idle")
          /\ started' = Renumber(started, c, 0)
          /\ last' = Returned("", "discover", EmptyArgs, r.outcome,
                              Scanned(outcome, down, stop_raises, started[c],
                                      \E k \in Calls : k < c /\ pc[k] # "idle"),
                              Scanning # {}, Self(chromecasts, last_discovery_time))
          /\ running' = ~Escapes(r.outcome)
    /\ ready' = RenumberQueue(Tail(ready), Head(ready))
    /\ blocked_by' = 0
    /\ UNCHANGED <<server, clock, requests>>

(***************************************************************************)
(* Tool calls: one atomic step each, or suspended at an HTTP request        *)
(***************************************************************************)
\* no device_name (so ""), a name of both devices, a name of u1 alone, no string
DeviceNameInputs == {Absent, Str(<<"b">>), Str(<<"a", "B">>), NotAString}

\* no volume (so 0.5), the boundaries 0.0 and 1.0, values outside them, a
\* number too large to be a percentage, null, and strings with and without
\* a letter
VolumeInputs ==
    {Absent, Num(0), Num(100), Num(150), Num(-10), Huge, Null, Str(<<"x">>),
     Str(<<"1">>)}

\* The texts to speak: every string of at most MaxText characters of a letter,
\* a space, an accented letter, an ampersand and a slash; no text; and values
\* that are no string
MaxText == 2
TextAlphabet == {"a", " ", "à", "&", "/"}
Texts == UNION {[1..k -> TextAlphabet] : k \in 0..MaxText}
TextValues == {Str(t) : t \in Texts} \cup {Absent, Null, NotAString}

\* The language tags: none (so vi-VN), a tag, and one with a character that
\* percent-encoding would replace
LanguageInputs == {Absent, Str(<<"en">>), Str(<<"e", "&", "n">>)}

BaseArgs == {NoArgs} \cup {ForDevice(d) : d \in DeviceNameInputs}

ArgsFor(op) ==
    CASE op = "play" ->
             {NoArgs} \cup
             {[ForDevice(d) EXCEPT !.media_url = Str(<<"u">>)] : d \in DeviceNameInputs} \cup
             {[ForDevice(Str(<<"b">>)) EXCEPT !.content_type = Str(<<"video/mp4">>),
                                              !.title = Str(<<"t">>)]}
      [] op = "set_volume" ->
             {NoArgs} \cup
             {ForDevice(d) : d \in DeviceNameInputs} \cup
             {[ForDevice(Str(<<"b">>)) EXCEPT !.volume = v] : v \in VolumeInputs}
      [] op = "speak_text" ->
             {NoArgs} \cup
             {[ForDevice(d) EXCEPT !.text = Str(<<"a", " ", "à">>)] : d \in DeviceNameInputs} \cup
             {[ForDevice(Str(<<"b">>)) EXCEPT !.text = t] :
                  t \in {Str(<<"&", "/">>), Null, NotAString}} \cup
             {[ForDevice(Str(<<"a", "B">>)) EXCEPT !.text = Str(<<"à">>), !.language = l] :
                  l \in LanguageInputs} \cup
             {[ForDevice(Str(<<"b">>)) EXCEPT !.language = Str(<<"en">>)]}
      [] op \in {"status", "pause", "resume", "stop"} -> BaseArgs
      [] op = "get_weather" ->
             {NoArgs, EmptyArgs, [EmptyArgs EXCEPT !.city = Str(CaoLanh)],
              [EmptyArgs EXCEPT !.city = NotAString]}
      [] op \in MusicTools -> {NoArgs, EmptyArgs}
      [] OTHER -> {EmptyArgs}

FaultsFor(op) ==
    CASE op \in {"play", "speak_text"} -> Faults
      [] op \in DeviceCommands -> Faults \ {"block_until_active"}
      [] OTHER -> {"none"}

\* The arguments with which the device-layer calls of an operation are made
\* to raise: the device name that both devices carry
FaultArgs(op) ==
    CASE op = "play" -> [ForDevice(Str(<<"b">>)) EXCEPT !.media_url = Str(<<"u">>)]
      [] op = "speak_text" -> [ForDevice(Str(<<"b">>)) EXCEPT !.text = Str(<<"a", " ", "à">>)]
      [] OTHER -> ForDevice(Str(<<"b">>))

\* The inputs of a tool call: every argument record with a device layer that
\* answers, and one argument record with each call that can raise
CommandInputs(op) ==
    {[args |-> a, fault |-> "none"] : a \in ArgsFor(op)}
        \cup {[args |-> FaultArgs(op), fault |-> f] : f \in FaultsFor(op)}

\* A mutant of RegistryAfterCall: a device whose command failed is evicted.
RegistryEvictUnreachable(reg, outcome) ==
    IF ~outcome.raised /\ ~outcome.result.success /\ outcome.calls # <<>>
    THEN SelectSeq(reg, LAMBDA cast : cast # outcome.calls[1].h)
    ELSE reg

\* self.chromecasts after list_devices, a device command or a data tool: none
\* of them assigns it.
RegistryAfterCall(reg, outcome) == reg

\* The tool names call_tool dispatches to `op`
Operations == DeviceCommands \cup DataTools \cup MusicTools \cup {"discover", "list", "unknown"}
NamesTable ==
    [srv \in Servers |->
        [op \in Operations |-> {name \in ToolNames : Route(srv, name) = op}]]
NamesOf(op) == NamesTable[server][op]

\* The event loop is free to run a tool call to its return.
Free == last = NoReturn /\ running /\ blocked_by = 0

\* call_tool for a tool name dispatched to `op` that returns without an await
Invoke(name, op, args, fault, media, http, unreadable) ==
    LET outcome == Dispatch(server, name, op, chromecasts, last_discovery_time, args,
                            fault, media, http, unreadable)
    IN /\ last' = Returned(name, op, args, outcome, [NoScan EXCEPT !.down = unreadable],
                           Scanning # {}, Self(chromecasts, last_discovery_time))
       /\ chromecasts' = RegistryAfterCall(chromecasts, outcome)
       /\ running' = ~Escapes(outcome)
       /\ UNCHANGED <<server, last_discovery_time, clock, pc, ready, blocked_by, started,
                      requests>>

CallList ==
    /\ Free
    /\ \E name \in NamesOf("list"), unreadable \in SUBSET Range(chromecasts) :
           Invoke(name, "list", EmptyArgs, "none", FALSE, "ok", unreadable)

CallStatus ==
    /\ Free
    /\ \E name \in NamesOf("status"), in \in CommandInputs("status"), media \in BOOLEAN :
           Invoke(name, "status", in.args, in.fault, media, "ok", {})

CallCommand(op) ==
    /\ Free
    /\ \E name \in NamesOf(op), in \in CommandInputs(op) :
           Invoke(name, op, in.args, in.fault, FALSE, "ok", {})

\* A tool call suspended at an await: the tool name and the arguments it was
\* called with, which of its requests it made last, what the primary source
\* of get_usd_rate answered, and the answer it has handled when it is
\* suspended in AsyncClient.__aexit__ ("none" while it waits at client.get)
Request(tool, op, args, stage, primary, got) ==
    [tool |-> tool, op |-> op, args |-> args, stage |-> stage, primary |-> primary,
     got |-> got]

\* Whether the operation asks two sources one after the other
TwoSources(srv, op) == srv = "music" /\ op = "get_usd_rate"

\* What the source a suspended tool call waits for can answer
AnswersFor(srv, r) ==
    IF TwoSources(srv, r.op)
    THEN (IF r.stage = 1 THEN PrimaryOutcomes ELSE FallbackOutcomes)
    ELSE HttpOutcomes

\* get_lyrics asks for the lyric_url with the client it already holds: no
\* __aexit__ lies between its two requests.
SameClientAgain(r, answer) == r.op = "get_lyrics" /\ r.stage = 1 /\ answer = "ok"

\* get_usd_rate of music_server.py asks the fallback, with a client of its
\* own, when the block of the primary was left by an exception.
AsksFallback(srv, r, answer) == TwoSources(srv, r.op) /\ r.stage = 1 /\ answer # "usd"

\* What the sources answered to a tool call that made its last request
Answered(srv, r, answer) ==
    IF TwoSources(srv, r.op)
    THEN (IF r.stage = 1 THEN [primary |-> answer, fallback |-> "no_vnd"]
          ELSE [primary |-> r.primary, fallback |-> answer])
    ELSE answer

\* args.get(...) and city.lower() before the try of get_weather and of the
\* music tools raise before any request is made
RaisesBeforeRequest(op, args) ==
    \/ op \in MusicTools /\ ~args.map
    \/ op = "get_weather" /\ WeatherRaises(args)

\* call_tool for a tool that asks a source: up to its first await
Ask(name, op, args) ==
    IF RaisesBeforeRequest(op, args)
    THEN Invoke(name, op, args, "none", FALSE, "ok", {})
    ELSE /\ Suspended < MaxCalls
         /\ requests' = requests (+) SetToBag({Request(name, op, args, 1, "none", "none")})
         /\ UNCHANGED <<server, chromecasts, last_discovery_time, clock, pc, ready,
                        blocked_by, last, running, started>>

CallData ==
    /\ Free
    /\ \E op \in DataTools :
         \E name \in NamesOf(op), args \in ArgsFor(op) : Ask(name, op, args)

CallMusic ==
    /\ Free
    /\ \E op \in MusicTools :
         \E name \in NamesOf(op), args \in ArgsFor(op) : Ask(name, op, args)

\* A tool call leaves the `async with httpx.AsyncClient(...)` block after the
\* answer it handled: it asks the fallback source, or it returns.
LeaveClient(r, answer) ==
    IF AsksFallback(server, r, answer)
    THEN /\ requests' = (requests (-) SetToBag({r})) (+)
                            SetToBag({[r EXCEPT !.stage = 2, !.primary = answer,
                                                !.got = "none"]})
         /\ UNCHANGED <<last, running>>
    ELSE LET outcome == Dispatch(server, r.tool, r.op, chromecasts,
                                 last_discovery_time, r.args, "none", FALSE,
                                 Answered(server, r, answer), {})
         IN /\ requests' = requests (-) SetToBag({r})
            /\ last' = Returned(r.tool, r.op, r.args, outcome, NoScan, Scanning # {},
                                Self(chromecasts, last_discovery_time))
            /\ running' = ~Escapes(outcome)

\* await client.get(...) completes and the event loop resumes the tool call,
\* which handles the answer up to its next await. kept_alive: the connection
\* is still in the pool of the client when the block is left, so that
\* AsyncClient.__aexit__ gives the event loop back once; it is not when the
\* connection closed with the response or when client.get raised (an answer
\* "error" is a raised request as well as an error status or a body that
\* cannot be used).
Respond(r, answer, kept_alive) ==
    /\ running
    /\ blocked_by = 0
    /\ last = NoReturn
    /\ BagIn(r, requests)
    /\ r.got = "none"
    /\ IF SameClientAgain(r, answer)
       THEN /\ requests' = (requests (-) SetToBag({r})) (+)
                               SetToBag({[r EXCEPT !.stage = 2]})
            /\ UNCHANGED <<last, running>>
       ELSE IF kept_alive
       THEN /\ requests' = (requests (-) SetToBag({r})) (+)
                               SetToBag({[r EXCEPT !.got = answer]})
            /\ UNCHANGED <<last, running>>
       ELSE LeaveClient(r, answer)
    /\ UNCHANGED <<server, chromecasts, last_discovery_time, clock, pc, ready,
                   blocked_by, started>>

\* AsyncClient.__aexit__ ends and the event loop resumes the tool call.
ClientClosed(r) ==
    /\ running
    /\ blocked_by = 0
    /\ last = NoReturn
    /\ BagIn(r, requests)
    /\ r.got # "none"
    /\ LeaveClient(r, r.got)
    /\ UNCHANGED <<server, chromecasts, last_discovery_time, clock, pc, ready,
                   blocked_by, started>>

\* Names sent to a server that does not handle them
StrangeNames == {"no_such_tool", "list_devices", "list_google_home", "get_gold_price"}

CallUnknown ==
    /\ Free
    /\ \E name \in NamesOf("unknown") \cap StrangeNames :
           Invoke(name, "unknown", EmptyArgs, "none", FALSE, "ok", {})

\* A discover is called
Discover ==
    /\ last = NoReturn
    /\ \E name \in NamesOf("discover"), args \in DiscoverArgs : DiscoverStart(name, args)

\* The scan of a discover in flight ends
ScanEnds ==
    /\ last = NoReturn
    /\ \E c \in Calls : ScanDone(c)

\* A discover whose scan ended is resumed with what the scan handed over
Resume ==
    /\ last = NoReturn
    /\ ready # <<>>
    /\ \E outcome \in ScanOutcomes :
          \E stop_raises \in (IF outcome.kind = "ok" /\ outcome.browser
                              THEN BOOLEAN ELSE {FALSE}) :
             \E down \in (IF stop_raises THEN {{}} ELSE SUBSET Range(outcome.casts)) :
                 DiscoverResume(outcome, down, stop_raises)

\* A source answers a tool call that waits for it
Answer ==
    /\ last = NoReturn
    /\ \E r \in BagToSet(requests) :
          \E answer \in AnswersFor(server, r), kept_alive \in BOOLEAN :
              Respond(r, answer, kept_alive)

\* A tool call suspended in AsyncClient.__aexit__ goes on
Closed ==
    /\ last = NoReturn
    /\ \E r \in BagToSet(requests) : ClientClosed(r)

Next ==
    \/ Tick
    \/ Deliver
    \/ Discover
    \/ ScanEnds
    \/ Resume
    \/ CallList
    \/ CallStatus
    \/ CallCommand("play")
    \/ CallCommand("pause")
    \/ CallCommand("resume")
    \/ CallCommand("stop")
    \/ CallCommand("set_volume")
    \/ CallCommand("speak_text")
    \/ CallData
    \/ CallMusic
    \/ Answer
    \/ Closed
    \/ CallUnknown

Spec == Init /\ [][Next]_vars

(***************************************************************************)
(* Properties                                                              *)
(***************************************************************************)
Returning(ops) == last.op \in ops
DiscoverReturned == last.op = "discover" /\ last.scan.kind # "none"
SelfNow == Self(chromecasts, last_discovery_time)

\* The server between tool calls with no invocation suspended. What a handler
\* computes from the registry is compared with the claims in these states:
\* every registry the server comes to hold is held in one of them.
AtRest == last = NoReturn /\ Suspended = 0
HasOp(calls, op) == \E i \in DOMAIN calls : calls[i].op = op

\* C1: when a discover whose scan succeeded has returned, the registry is
\* exactly the list the scan returned, in scan order, whatever it held before.
C1_FullReplacement ==
    (DiscoverReturned /\ last.scan.kind = "ok") => chromecasts = last.scan.casts

\* A discover returned over a registry of two devices and left only the one
\* device its scan found.
C1_Witness ==
    /\ DiscoverReturned /\ last.scan.kind = "ok"
    /\ last.prior.chromecasts = <<"u1", "u2">>
    /\ last.scan.casts = <<"u2">>
    /\ chromecasts = <<"u2">>

\* C2: a discover whose scan raised returns success = false with the cause as
\* its error, and leaves the registry and the timestamp as they were.
C2_ScanErrorLeavesRegistry ==
    (DiscoverReturned /\ last.scan.kind = "raise") =>
        /\ ~last.raised
        /\ last.result.success = FALSE
        /\ "error" \in DOMAIN last.result
        /\ last.result.error = "ScanError"
        /\ SelfNow = last.prior

\* A scan raised while the registry held a device and a timestamp.
C2_Witness ==
    /\ DiscoverReturned /\ last.scan.kind = "raise"
    /\ chromecasts # <<>>
    /\ last_discovery_time.set

\* Strings compared without regard to case, character by character
SameLetter(x, y) ==
    x = y \/ {x, y} \in {{"a", "A"}, {"b", "B"}, {"c", "C"}}
EqualIgnoringCase(a, b) ==
    Len(a) = Len(b) /\ \A i \in DOMAIN a : SameLetter(a[i], b[i])
Addressed(cast, n) ==
    EqualIgnoringCase(name_of(cast), n) \/ EqualIgnoringCase(friendly_name_of(cast), n)

\* The names looked up
NameStrings ==
    {<<>>, <<"a">>, <<"b">>, <<"B">>, <<"c">>, <<"C">>, <<"a", "b">>, <<"A", "B">>,
     <<"A", "b">>, <<"b", "a">>, <<"b", "c">>}

\* C3: find returns an entry of the registry exactly when some entry's name or
\* friendly name equals the given name ignoring case, the entry it returns is
\* such an entry, and on an empty registry it returns NotFound; for every
\* registry the server holds between tool calls.
C3_FindIffNameMatches ==
    AtRest => \A n \in NameStrings :
        LET r == _find_device(chromecasts, n)
        IN /\ (r # NotFound) <=> (\E i \in DOMAIN chromecasts : Addressed(chromecasts[i], n))
           /\ r # NotFound => (r \in Range(chromecasts) /\ Addressed(r, n))
           /\ chromecasts = <<>> => r = NotFound

\* pause found the device named "Ab" with friendly name "B" under the name "b",
\* in a registry whose first entry is that device.
C3_Witness ==
    /\ Returning({"pause"})
    /\ last.args.device_name = Str(<<"b">>)
    /\ chromecasts = <<"u1", "u2">>
    /\ last.calls # <<>>
    /\ last.calls[1].h = "u1"

LocatedAs(kind) == Locate(server, last.prior.chromecasts, last.args).kind = kind

\* C4: a device command whose lookup returned NotFound returns success = false,
\* makes no device-layer call and changes neither registry nor timestamp.
C4_NotFoundShortCircuits ==
    (Returning(DeviceCommands) /\ LocatedAs("notfound")) =>
        /\ ~last.raised
        /\ last.result.success = FALSE
        /\ last.calls = <<>>
        /\ SelfNow = last.prior

\* play was asked for a device that a non-empty registry does not hold.
C4_Witness ==
    /\ Returning({"play"})
    /\ LocatedAs("notfound")
    /\ chromecasts # <<>>

\* C5: list and the device commands leave the registry and the timestamp
\* unchanged, whether they succeed or fail, and a device whose command failed
\* is still in the registry and still the device found under the name the
\* command was given.
C5_OnlyDiscoverMutates ==
    Returning(DeviceCommands \cup {"list"}) =>
        /\ SelfNow = last.prior
        /\ (LocatedAs("found") /\ ~last.result.success) =>
               LET cast == Locate(server, last.prior.chromecasts, last.args).cast
               IN /\ \E i \in DOMAIN chromecasts : chromecasts[i] = cast
                  /\ _find_device(chromecasts, last.args.device_name.v) = cast
                  /\ \A i \in DOMAIN last.calls : last.calls[i].h = cast

\* stop failed on a device that was found.
C5_Witness ==
    /\ Returning({"stop"})
    /\ LocatedAs("found")
    /\ ~last.result.success
    /\ HasOp(last.calls, "stop")

\* C6 as claimed: when a discover returns, a browser that its scan started
\* has been released, whatever the outcome: stop_discovery was called on it
\* and returned.
C6_BrowserStopped ==
    (DiscoverReturned /\ last.scan.browser) =>
        /\ HasOp(last.calls, "stop_discovery")
        /\ ~last.scan.stop_raises

\* C7: while a scan is in progress the event loop thread is not occupied by
\* it, and a tool call can run to its return.
C7_ScanOffLoop ==
    Scanning # {} =>
        /\ blocked_by = 0
        /\ last = NoReturn => ENABLED CallList

\* A device command returned while a scan was in progress.
C7_Witness ==
    /\ Returning(DeviceCommands)
    /\ last.overlapped
    /\ Scanning # {}

\* C8: the registry and the timestamp change only together, in one step, to a
\* complete scan result and the time of that step; and a list that succeeds
\* reports the entries it could read of one registry, with the timestamp
\* written with that registry.
C8_AtomicReplace ==
    [][/\ \/ UNCHANGED <<chromecasts, last_discovery_time>>
          \/ /\ last'.op = "discover" /\ last'.scan.kind = "ok"
             /\ chromecasts' = last'.scan.casts
             /\ last_discovery_time' = TimeAt(clock)
       /\ (last'.op = "list" /\ last'.result.success) =>
             /\ last'.result.devices = ListLoop(server, chromecasts', last'.scan.down)
             /\ last'.result.last_discovery = LastDiscovery(last_discovery_time')
             /\ last_discovery_time'.set]_vars

\* list returned the registry of a later discovery while another scan was in
\* progress.
C8_Witness ==
    /\ Returning({"list"})
    /\ last.result.success
    /\ last.overlapped
    /\ last_discovery_time.at > 1

\* C9: no operation raises to its caller; every failure inside it is returned
\* as an envelope with success = false.
C9_NeverRaises == ~last.raised

\* C10 as claimed: every result with success = false carries an error string.
C10_FailureCarriesError ==
    (last.op # "none" /\ ~last.result.success) => "error" \in DOMAIN last.result

\* C10: every tool call returns one envelope with a boolean success; a success
\* carries a payload, and a failure carries an error string, except list on an
\* empty registry, which carries a message and an empty device list.
C10_Envelope ==
    last.op # "none" =>
        /\ "success" \in DOMAIN last.result
        /\ last.result.success \in BOOLEAN
        /\ last.result.success => DOMAIN last.result # {"success"}
        /\ ~last.result.success =>
              \/ "error" \in DOMAIN last.result
              \/ /\ last.op = "list"
                 /\ last.prior.chromecasts = <<>>
                 /\ "message" \in DOMAIN last.result
                 /\ last.result.devices = <<>>

\* list returned a failure without an error string.
C10_Witness ==
    /\ Returning({"list"})
    /\ ~last.result.success
    /\ "error" \notin DOMAIN last.result

\* The tool names a server dispatches to an operation
Routed(srv) == ToolNames \ NamesTable[srv]["unknown"]

\* C11: a tool call whose name the server does not handle returns the failure
\* envelope that names the tool; no operation is invoked, nothing is raised,
\* no device-layer call is made, and registry and timestamp are unchanged.
C11_UnknownToolRejected ==
    (last.tool # "" /\ last.tool \notin Routed(server)) =>
        /\ last.op = "unknown"
        /\ ~last.raised
        /\ last.result = [success |-> FALSE, error |-> <<"Unknown tool: ", last.tool>>]
        /\ last.calls = <<>>
        /\ SelfNow = last.prior

\* The unified server was sent a tool name of the other server while its
\* registry held devices.
C11_Witness ==
    /\ server = "unified"
    /\ last.tool = "list_devices"
    /\ last.op = "unknown"
    /\ chromecasts # <<>>

\* C12: whatever failed before, the server process is alive, a response that
\* was produced is an envelope the transport can take, and with the event
\* loop free the router accepts the next tool call and answers it: a list, a
\* discover, a data tool, a music tool or a name it does not know.
C12_FailuresNeverTerminate ==
    /\ running
    /\ last.op # "none" => (last.result.success \in BOOLEAN /\ ENABLED Deliver)
    /\ (blocked_by = 0 /\ last = NoReturn) =>
           /\ ENABLED CallUnknown
           /\ server # "google_home" => ENABLED CallData
           /\ server = "music" => ENABLED CallMusic
           /\ server # "music" =>
                  /\ ENABLED CallList
                  /\ \E name \in NamesOf("discover") : ENABLED DiscoverStart(name, NoArgs)

\* An operation raised on a registry that a discover had filled, and the call
\* was answered with a failure envelope by a server that is alive.
C12_Witness ==
    /\ running
    /\ last.raised
    /\ ~last.result.success
    /\ chromecasts # <<>>
    /\ "error" \in DOMAIN last.result

\* C13: a discover whose scan returned no device leaves the registry empty,
\* and, stop_discovery not having raised, returns success = true with
\* device_count = 0 and an empty device list.
C13_ZeroDevicesIsSuccess ==
    (DiscoverReturned /\ last.scan.kind = "ok" /\ last.scan.casts = <<>>) =>
        /\ chromecasts = <<>>
        /\ ~last.scan.stop_raises =>
               /\ ~last.raised
               /\ last.result.success = TRUE
               /\ last.result.device_count = 0
               /\ last.result.devices = <<>>

\* A scan that found nothing emptied a registry of two devices and the
\* discover returned success.
C13_Witness ==
    /\ DiscoverReturned /\ last.scan.kind = "ok" /\ last.scan.casts = <<>>
    /\ last.prior.chromecasts = <<"u2", "u1">>
    /\ chromecasts = <<>>
    /\ last.result.success

\* The summaries of the scanned devices whose wait() returned, in scan order
RECURSIVE SummariesOfUp(_, _)
SummariesOfUp(casts, down) ==
    IF casts = <<>> THEN <<>>
    ELSE (IF Head(casts) \in down THEN <<>> ELSE <<DeviceSummary(Head(casts))>>)
             \o SummariesOfUp(Tail(casts), down)

\* C14: a device whose details cannot be retrieved during discover is left
\* out of the returned list, and the call, stop_discovery not having raised,
\* returns success = true with the summaries of all other scanned devices.
C14_FailedDeviceSkipped ==
    (DiscoverReturned /\ last.scan.kind = "ok" /\ ~last.scan.stop_raises) =>
        /\ ~last.raised
        /\ last.result.success = TRUE
        /\ last.result.devices = SummariesOfUp(last.scan.casts, last.scan.down)
        /\ last.result.device_count = Len(last.scan.casts) - Cardinality(last.scan.down)

\* The first of two scanned devices failed and the second is in the list.
C14_Witness ==
    /\ DiscoverReturned /\ last.scan.kind = "ok"
    /\ last.scan.casts = <<"u1", "u2">>
    /\ last.scan.down = {"u1"}
    /\ last.result.success
    /\ Len(last.result.devices) = 1
    /\ last.result.devices[1].uuid = "u2"

\* The positions of the registry entries a name addresses
MatchingPositions(reg, n) == {i \in DOMAIN reg : Addressed(reg[i], n)}
Least(S) == CHOOSE i \in S : \A j \in S : i <= j

\* C15: when entries of the registry match a name, find returns the one at
\* the least position, the registry being in the order of the scan that
\* filled it; the device a command acts on is that entry. The lookup is
\* checked on every registry the server holds between tool calls.
C15_FirstMatchWins ==
    /\ AtRest => \A n \in NameStrings :
           MatchingPositions(chromecasts, n) # {} =>
               _find_device(chromecasts, n) =
                   chromecasts[Least(MatchingPositions(chromecasts, n))]
    /\ (DiscoverReturned /\ last.scan.kind = "ok") =>
           \A i \in DOMAIN last.scan.casts : chromecasts[i] = last.scan.casts[i]
    /\ (Returning(DeviceCommands) /\ last.calls # <<>>) =>
           last.calls[1].h =
               last.prior.chromecasts[Least(MatchingPositions(last.prior.chromecasts,
                                                              last.args.device_name.v))]

\* Both entries answer to "b"; resume acted on the first one, which is the
\* device the scan returned first.
C15_Witness ==
    /\ Returning({"resume"})
    /\ last.args.device_name = Str(<<"b">>)
    /\ chromecasts = <<"u2", "u1">>
    /\ Cardinality(MatchingPositions(chromecasts, <<"b">>)) = 2
    /\ last.calls # <<>>
    /\ last.calls[1].h = "u2"

\* C16: every entry of the registry is found under its internal name; after
\* a successful discover every name in the returned list resolves to a
\* device, so status on that name gets past the lookup.
C16_AddressableByName ==
    /\ AtRest => \A i \in DOMAIN chromecasts :
           _find_device(chromecasts, name_of(chromecasts[i])) # NotFound
    /\ (DiscoverReturned /\ last.result.success) =>
           \A i \in DOMAIN last.result.devices :
               /\ _find_device(chromecasts, last.result.devices[i].name) # NotFound
               /\ Locate(server, chromecasts,
                         ForDevice(Str(last.result.devices[i].name))).kind = "found"

\* A discover returned two devices whose internal and display names differ.
C16_Witness ==
    /\ DiscoverReturned /\ last.result.success
    /\ Len(last.result.devices) = 2
    /\ \A i \in 1..2 : last.result.devices[i].name # last.result.devices[i].friendly_name

\* C17: a discover that succeeds leaves a timestamp that is present and not
\* earlier than the time the call was made; and, the clock not running
\* backwards, a timestamp once present stays present and never decreases.
C17_TimestampNotBeforeStart ==
    [][/\ (last'.op = "discover" /\ last'.scan.kind # "none" /\ last'.result.success) =>
             /\ last_discovery_time'.set
             /\ last'.scan.start >= 1
             /\ last_discovery_time'.at >= last'.scan.start
       /\ last_discovery_time.set =>
             /\ last_discovery_time'.set
             /\ last_discovery_time'.at >= last_discovery_time.at]_vars

\* A second discover, called at time 1, succeeded at time 2.
C17_Witness ==
    /\ DiscoverReturned /\ last.result.success
    /\ last.prior.last_discovery_time = TimeAt(1)
    /\ last.scan.start = 1
    /\ last_discovery_time = TimeAt(2)

\* urllib.parse.unquote: the text a percent-encoded string stands for
RECURSIVE Unquote(_)
Unquote(s) ==
    IF s = <<>> THEN <<>>
    ELSE IF Len(s) >= 6 /\ SubSeq(s, 1, 6) = <<"%", "C", "3", "%", "A", "0">>
         THEN <<"à">> \o Unquote(SubSeq(s, 7, Len(s)))
    ELSE IF Len(s) >= 3 /\ SubSeq(s, 1, 3) = <<"%", "2", "0">>
         THEN <<" ">> \o Unquote(SubSeq(s, 4, Len(s)))
    ELSE IF Len(s) >= 3 /\ SubSeq(s, 1, 3) = <<"%", "2", "6">>
         THEN <<"&">> \o Unquote(SubSeq(s, 4, Len(s)))
    ELSE IF Len(s) >= 3 /\ SubSeq(s, 1, 3) = <<"%", "2", "5">>
         THEN <<"%">> \o Unquote(SubSeq(s, 4, Len(s)))
    ELSE <<Head(s)>> \o Unquote(Tail(s))

\* The characters a percent-encoded string has none of: those that end or
\* split a query parameter, and those outside ASCII
NotInEncoded == {" ", "&", "à"}

TtsEndpoint == "https://translate.google.com/translate_tts?ie=UTF-8&client=tw-ob&tl="

\* The URL is that of the synthesis endpoint with the language tag as it was
\* given and, as its q parameter, a percent-encoded form of the text
SpeaksUrl(url, language, text) ==
    LET n == Len(language) + 2
        q == SubSeq(url, n + 1, Len(url))
    IN /\ Len(url) >= n
       /\ SubSeq(url, 1, n) = <<TtsEndpoint>> \o language \o <<"&q=">>
       /\ \A i \in DOMAIN q : q[i] \notin NotInEncoded
       /\ Unquote(q) = text

\* The play call of speak_text: to that device, of that URL, as audio/mp3
Speaks(call, cast, language, text) ==
    /\ call.h = cast
    /\ call.arg.content_type = <<"audio/mp3">>
    /\ call.arg.title = Absent
    /\ SpeaksUrl(call.arg.url, language, text)

CallsOf(calls, op) == SelectSeq(calls, LAMBDA c : c.op = op)

\* C18 as claimed: speak_text on a device that is found dispatches exactly one
\* play call, with content type audio/mp3 and a URL that holds the language
\* tag as given (vi-VN when absent) and the percent-encoded text.
C18_SpeakAlwaysPlays ==
    (Returning({"speak_text"}) /\ LocatedAs("found")) =>
        LET plays == CallsOf(last.calls, "play_media")
        IN /\ Len(plays) = 1
           /\ Speaks(plays[1], Locate(server, last.prior.chromecasts, last.args).cast,
                     Get(last.args.language, Str(<<"vi-VN">>)).v,
                     Get(last.args.text, Str(<<>>)).v)

\* C18: speak_text on a device that is found, with a text that is a string
\* (the empty one when absent), dispatches exactly one play call once the
\* ready-wait has returned, whether or not that call or the wait for the
\* session then raises: to that device, with content type audio/mp3, no
\* title, and the URL of the endpoint holding the language tag as given
\* (vi-VN when absent) and the percent-encoded text. It dispatches no play
\* call, and fails, when the ready-wait raises or the text is no string, and
\* none when the device is not found.
C18_SpeakUrl ==
    /\ Returning({"speak_text"}) =>
           LET plays == CallsOf(last.calls, "play_media")
               text == Get(last.args.text, Str(<<>>))
               language == Get(last.args.language, Str(<<"vi-VN">>))
               cast == Locate(server, last.prior.chromecasts, last.args).cast
           IN IF LocatedAs("found") /\ text.t = "str"
              THEN \/ /\ last.calls = <<DeviceCall(cast, "wait", NoArg)>>
                      /\ ~last.result.success
                   \/ /\ Len(plays) = 1
                      /\ Speaks(plays[1], cast, language.v, text.v)
              ELSE /\ plays = <<>>
                   /\ ~last.result.success
    /\ AtRest =>
           \A d \in DeviceNameInputs, t \in TextValues, l \in LanguageInputs, fault \in Faults :
               LET args == [ForDevice(d) EXCEPT !.text = t, !.language = l]
                   loc == Locate(server, chromecasts, args)
                   o == speak_text(server, chromecasts, args, fault)
                   plays == CallsOf(o.calls, "play_media")
               IN loc.kind = "found" =>
                      IF Get(t, Str(<<>>)).t = "str" /\ fault # "wait"
                      THEN /\ Len(plays) = 1
                           /\ Speaks(plays[1], loc.cast, Get(l, Str(<<"vi-VN">>)).v,
                                     Get(t, Str(<<>>)).v)
                           /\ o.result.success <=> fault = "none"
                      ELSE /\ plays = <<>>
                           /\ ~o.raised
                           /\ ~o.result.success

\* A text with a space and an accented letter was spoken with no language
\* given, and the wait for the session raised after the play call.
C18_Witness ==
    /\ Returning({"speak_text"})
    /\ ~last.result.success
    /\ last.args.text = Str(<<"a", " ", "à">>)
    /\ last.args.language = Absent
    /\ Len(CallsOf(last.calls, "play_media")) = 1
    /\ HasOp(last.calls, "block_until_active")

\* C19 as claimed: set_volume on a device that is found and answers passes
\* the volume it was given, whatever it is, to the set-volume call of the
\* device and returns success with that value as `volume`.
C19_VolumeNotClamped ==
    AtRest =>
        \A v \in VolumeInputs :
            LET args == [ForDevice(Str(<<"b">>)) EXCEPT !.volume = v]
                loc == Locate(server, chromecasts, args)
                o == set_volume(server, chromecasts, args, "none")
                sets == CallsOf(o.calls, "set_volume")
            IN loc.kind = "found" =>
                   /\ Len(sets) = 1
                   /\ sets[1].h = loc.cast
                   /\ sets[1].arg.volume = Get(v, Num(50))
                   /\ o.result.success
                   /\ o.result.volume = Get(v, Num(50))

OpsOf(calls) == [i \in DOMAIN calls |-> calls[i].op]

\* C20: play returns success only when the ready-wait, the play command and
\* the wait for the active media session have all been called, in that order,
\* on the resolved device and have returned; when the play command or the
\* wait for the session raises, the result is a failure (for every registry
\* the server holds between tool calls).
C20_PlayConfirmed ==
    /\ (Returning({"play"}) /\ last.result.success) =>
           /\ OpsOf(last.calls) = <<"wait", "play_media", "block_until_active">>
           /\ \A i \in DOMAIN last.calls : last.calls[i].h = last.calls[1].h
    /\ AtRest =>
         \A args \in ArgsFor("play"), fault \in {"command", "block_until_active"} :
           Locate(server, chromecasts, args).kind = "found" =>
               LET o == play_media(server, chromecasts, args, fault)
               IN /\ ~o.raised
                  /\ o.result.success = FALSE
                  /\ "error" \in DOMAIN o.result

\* The play command was issued and the wait for the session raised.
C20_Witness ==
    /\ Returning({"play"})
    /\ ~last.result.success
    /\ OpsOf(last.calls) = <<"wait", "play_media", "block_until_active">>

\* The arguments of the play that speak_text stands for: the same device, the
\* constructed URL, audio/mp3, and no title
PlayArgsOf(args) ==
    IF ~args.map THEN args
    ELSE [ForDevice(args.device_name) EXCEPT
             !.media_url = Str(TtsUrl(Get(args.language, Str(<<"vi-VN">>)).v,
                                      Get(args.text, Str(<<>>)).v)),
             !.content_type = Str(<<"audio/mp3">>)]

\* Device-layer calls with the empty title of a play call left out
WithoutEmptyTitle(calls) ==
    [i \in DOMAIN calls |->
        IF calls[i].arg.title = Str(<<>>)
        THEN [calls[i] EXCEPT !.arg = [@ EXCEPT !.title = Absent]]
        ELSE calls[i]]

SameOutcome(a, b) == a.raised = b.raised /\ a.result.success = b.result.success

\* The arguments speak_text is compared with play for: every device name,
\* text and language of the model
SpeakArgs ==
    {[ForDevice(d) EXCEPT !.text = t, !.language = l] :
         d \in DeviceNameInputs, t \in TextValues, l \in LanguageInputs}

\* A text of which speak_text can construct the URL
Speakable(args) == Get(args.text, Str(<<>>)).t = "str"

\* C21 as claimed: speak_text makes the same device-layer calls with the same
\* arguments, and has the same outcome, as play of the constructed URL with
\* audio/mp3 and no title (compared for the texts that have such a URL).
C21_SpeakIsPlay ==
    AtRest =>
        \A args \in {a \in SpeakArgs : Speakable(a)}, fault \in Faults :
            LET speak == speak_text(server, chromecasts, args, fault)
                play == play_media(server, chromecasts, PlayArgsOf(args), fault)
            IN SameOutcome(speak, play) /\ speak.calls = play.calls

\* C21: for a text that is a string (the empty one when absent), speak_text
\* makes the device-layer calls of play of the constructed URL with
\* audio/mp3, in the same order on the same device and with the same
\* outcome, except that play given no title passes an empty title to the play
\* command where speak_text passes none. For a text that is no string there
\* is no URL to play: speak_text makes no device-layer call and fails.
C21_SpeakIsPlayButTitle ==
    AtRest =>
        \A args \in SpeakArgs, fault \in Faults :
            LET speak == speak_text(server, chromecasts, args, fault)
                play == play_media(server, chromecasts, PlayArgsOf(args), fault)
            IN IF Speakable(args)
               THEN /\ SameOutcome(speak, play)
                    /\ speak.calls = WithoutEmptyTitle(play.calls)
                    /\ \A i \in DOMAIN play.calls :
                           play.calls[i].op = "play_media" =>
                               /\ play.calls[i].arg.title = Str(<<>>)
                               /\ speak.calls[i].arg.title = Absent
               ELSE /\ speak.calls = <<>>
                    /\ ~call_tool(speak).success

\* speak_text succeeded with the calls of the play it stands for, the title
\* apart.
C21_Witness ==
    /\ Returning({"speak_text"})
    /\ last.result.success
    /\ LET play == play_media(server, last.prior.chromecasts, PlayArgsOf(last.args), "none")
       IN /\ play.result.success
          /\ last.calls = WithoutEmptyTitle(play.calls)
          /\ last.calls # play.calls

\* The transport command of each playback operation
TransportCommand(op) ==
    CASE op = "pause"  -> "pause"
      [] op = "resume" -> "play"
      [] op = "stop"   -> "stop"

Commands(calls) == SelectSeq(calls, LAMBDA c : c.op # "wait")

\* C22: pause, resume and stop on a resolved device whose ready-wait returned
\* issue exactly one command, the corresponding one and with no media, to
\* that device; they never issue another command and never call any other
\* device of the registry.
C22_OneTransportCommand ==
    /\ Returning({"pause", "resume", "stop"}) =>
           /\ \A i \in DOMAIN last.calls :
                  /\ last.calls[i].h = Locate(server, last.prior.chromecasts, last.args).cast
                  /\ last.calls[i].arg = NoArg
           /\ Len(Commands(last.calls)) <= 1
           /\ \A i \in DOMAIN last.calls :
                  last.calls[i].op \in {"wait", TransportCommand(last.op)}
           /\ last.result.success => Len(Commands(last.calls)) = 1
    /\ AtRest =>
           \A op \in {"pause", "resume", "stop"} :
               \A args \in ArgsFor(op), fault \in Faults \ {"wait"} :
                   Locate(server, chromecasts, args).kind = "found" =>
                       LET o == Dispatch(server, "", op, chromecasts, last_discovery_time,
                                         args, fault, FALSE, "ok", {})
                       IN /\ Len(Commands(o.calls)) = 1
                          /\ Commands(o.calls)[1] =
                                 DeviceCall(Locate(server, chromecasts, args).cast,
                                            TransportCommand(op), NoArg)

\* resume succeeded on the second entry of a registry of two devices.
C22_Witness ==
    /\ Returning({"resume"})
    /\ last.result.success
    /\ last.prior.chromecasts = <<"u2", "u1">>
    /\ last.args.device_name = Str(<<"a", "B">>)
    /\ Commands(last.calls) = <<DeviceCall("u1", "play", NoArg)>>

\* C23: a discover that returns success = false leaves the registry and the
\* timestamp as they were before the call.
C23_FailedDiscoverLeavesRegistry ==
    (last.op = "discover" /\ ~last.result.success) => SelfNow = last.prior

Uuids(devices) == {devices[i].uuid : i \in DOMAIN devices}

\* C24 as claimed: after a successful discover device_count is the number of
\* registry entries and every registry entry that find resolves is in the
\* returned list.
C24_ListDescribesRegistry ==
    (DiscoverReturned /\ last.result.success) =>
        /\ last.result.device_count = Len(chromecasts)
        /\ \A i \in DOMAIN chromecasts :
               _find_device(chromecasts, name_of(chromecasts[i])) = chromecasts[i] =>
                   chromecasts[i] \in Uuids(last.result.devices)

\* C24: after a successful discover device_count is the length of the
\* returned list, and the list is the summaries, in registry order, of the
\* registry entries whose details could be retrieved; an entry whose details
\* could not be retrieved is in the registry, and is resolved by find, but is
\* not in the list, so the count equals the size of the registry exactly when
\* no device failed.
C24_ListDescribesReachable ==
    (DiscoverReturned /\ last.result.success) =>
        /\ last.result.device_count = Len(last.result.devices)
        /\ last.result.devices = SummariesOfUp(chromecasts, last.scan.down)
        /\ last.scan.down \subseteq Range(chromecasts)
        /\ \A d \in last.scan.down :
               /\ d \notin Uuids(last.result.devices)
               /\ _find_device(chromecasts, name_of(d)) # NotFound
        /\ (last.result.device_count = Len(chromecasts)) <=> (last.scan.down = {})

\* A discover succeeded with one of two devices failing: the registry holds
\* two entries, the list one, and find resolves the failed device itself.
C24_Witness ==
    /\ DiscoverReturned /\ last.result.success
    /\ chromecasts = <<"u1", "u2">>
    /\ last.scan.down = {"u1"}
    /\ last.result.device_count = 1
    /\ _find_device(chromecasts, name_of("u1")) = "u1"

\* C25: when discover calls overlap, each returns the list built from its own
\* scan result, and on each return the registry is exactly the scan result of
\* the call that returned, which is the one whose scan completed last so far,
\* whether or not it was called last: the calls resume in the order their
\* scans completed.
C25_LastCompletedScanWins ==
    /\ (DiscoverReturned /\ last.scan.kind = "ok") =>
           /\ chromecasts = last.scan.casts
           /\ last.result.success =>
                  last.result.devices = SummariesOfUp(last.scan.casts, last.scan.down)
    /\ last = NoReturn =>
           /\ \A c \in Calls : pc[c] = "scanned" <=> \E i \in DOMAIN ready : ready[i] = c
           /\ \A i, j \in DOMAIN ready : ready[i] = ready[j] => i = j

\* Two discovers overlap and the scan of the one called last completed first:
\* it returned its own devices and the registry holds its scan result, which
\* replaced that of an earlier discover, while the call started first is
\* still scanning.
C25_Witness ==
    /\ DiscoverReturned /\ last.scan.kind = "ok"
    /\ last.scan.overtook
    /\ pc[1] = "scanning"
    /\ started[1] < last.scan.start
    /\ last.prior.chromecasts = <<"u1">>
    /\ last.scan.casts = <<"u2">>
    /\ chromecasts = <<"u2">>
    /\ last.result.success
    /\ Uuids(last.result.devices) = {"u2"}

\* C26: a registry that holds devices has a timestamp; once a scan has
\* succeeded the timestamp is present and stays present; and a list that
\* succeeds reports a time, never "Never".
C26_TimestampWithRegistry ==
    /\ [](/\ chromecasts # <<>> => last_discovery_time.set
          /\ (DiscoverReturned /\ last.scan.kind = "ok") => last_discovery_time.set
          /\ (Returning({"list"}) /\ last.result.success) =>
                 /\ ~last.result.last_discovery.never
                 /\ last.result.last_discovery.at = last_discovery_time.at)
    /\ [][/\ last_discovery_time.set => last_discovery_time'.set
          /\ (~last_discovery_time.set /\ last_discovery_time'.set) =>
                 (last'.op = "discover" /\ last'.scan.kind = "ok")]_vars

\* list succeeded on two devices and reported the time of their discovery.
C26_Witness ==
    /\ Returning({"list"})
    /\ last.result.success
    /\ last.result.device_count = 2
    /\ last.result.last_discovery = [never |-> FALSE, at |-> 2]

\* C27: list on an empty registry returns success = false with an empty
\* device list and the prompt to run discovery, whether or not a discovery
\* was made before; on a registry that holds devices it returns success =
\* true with device_count the number of devices listed, which are the entries
\* whose attributes could be read, in registry order.
C27_ListOnEmptyRegistry ==
    Returning({"list"}) =>
        IF last.prior.chromecasts = <<>>
        THEN /\ last.result = NoDevices
             /\ "error" \notin DOMAIN last.result
        ELSE /\ last.result.success = TRUE
             /\ last.result.device_count = Len(last.result.devices)
             /\ last.result.devices = ListLoop(server, chromecasts, last.scan.down)
             /\ last.scan.down = {} =>
                    /\ Len(last.result.devices) = Len(chromecasts)
                    /\ \A i \in DOMAIN chromecasts :
                           last.result.devices[i].name = name_of(chromecasts[i])

\* list failed on the empty registry left by a discovery that found nothing.
C27_Witness ==
    /\ Returning({"list"})
    /\ ~last.result.success
    /\ last.result.devices = <<>>
    /\ last_discovery_time.set
    /\ chromecasts = <<>>

\* C28 as claimed: every device command on a device that is found calls the
\* ready-wait of that device before anything else.
C28_WaitAlways ==
    (Returning(DeviceCommands) /\ LocatedAs("found")) =>
        /\ last.calls # <<>>
        /\ last.calls[1] =
               DeviceCall(Locate(server, last.prior.chromecasts, last.args).cast,
                          "wait", NoArg)

\* C28: a device command on a device that is found calls the ready-wait of
\* that device first and once, and everything else after it has returned;
\* the one command that returns without calling it is speak_text of a text
\* that is no string, which fails without any device-layer call. When the
\* ready-wait raises, it is the only call made and the result is
\* success = false.
C28_WaitFirst ==
    /\ Returning(DeviceCommands) =>
           /\ last.result.success => last.calls # <<>>
           /\ last.calls # <<>> =>
                  /\ last.calls[1] =
                         DeviceCall(Locate(server, last.prior.chromecasts, last.args).cast,
                                    "wait", NoArg)
                  /\ \A i \in 2..Len(last.calls) : last.calls[i].op # "wait"
           /\ (LocatedAs("found") /\ last.calls = <<>>) =>
                  /\ last.op = "speak_text"
                  /\ Get(last.args.text, Str(<<>>)).t # "str"
                  /\ ~last.result.success
    /\ AtRest =>
           \A op \in DeviceCommands :
               \A args \in ArgsFor(op) :
                   Locate(server, chromecasts, args).kind = "found" =>
                       LET o == Dispatch(server, "", op, chromecasts, last_discovery_time,
                                         args, "wait", FALSE, "ok", {})
                       IN /\ ~o.raised
                          /\ o.result.success = FALSE
                          /\ o.calls =
                                 IF op = "speak_text" /\ Get(args.text, Str(<<>>)).t # "str"
                                 THEN <<>>
                                 ELSE <<DeviceCall(Locate(server, chromecasts, args).cast,
                                                   "wait", NoArg)>>

\* The ready-wait of a resolved device raised in status: nothing was read.
C28_Witness ==
    /\ Returning({"status"})
    /\ LocatedAs("found")
    /\ ~last.result.success
    /\ OpsOf(last.calls) = <<"wait">>

\* C29: in each server the tool names list_tools advertises are the tool
\* names call_tool dispatches to an operation: a call is answered with
\* "Unknown tool" exactly when its name is not advertised.
C29_AdvertisedIsRouted ==
    last.tool # "" => (last.op = "unknown" <=> last.tool \notin list_tools(server))

\* C30: get_usd_rate of the music server asks the primary source first and
\* the fallback only when the primary failed or had no USD entry; it succeeds
\* with the primary's USD entry, else with the fallback's VND rate, and else
\* fails with the error of the primary; it never raises.
C30_UsdRateFallback ==
    /\ \A r \in BagToSet(requests) :
           (r.op = "get_usd_rate" /\ r.stage = 2) => r.primary \in {"no_usd", "error"}
    /\ (server = "music" /\ Returning({"get_usd_rate"})) =>
           /\ ~last.raised
           /\ last.calls \in {<<HttpGet("vietcombank")>>,
                               <<HttpGet("vietcombank"), HttpGet("exchangerate-api")>>}
           /\ Len(last.calls) = 1 =>
                  (last.result.success /\ last.result.bank = "Vietcombank")
           /\ (Len(last.calls) = 2 /\ last.result.success) =>
                  last.result.source = "Exchange Rate API"
           /\ ~last.result.success =>
                  last.result.error \in {PrimaryError(p) : p \in PrimaryOutcomes \ {"usd"}}
    /\ (server = "music" /\ AtRest) =>
           \A src \in UsdSources :
               LET o == music_get_usd_rate(src.primary, src.fallback)
                   asked == [i \in DOMAIN o.calls |-> o.calls[i].arg.url[1]]
               IN /\ ~o.raised
                  /\ asked = IF src.primary = "usd" THEN <<"vietcombank">>
                             ELSE <<"vietcombank", "exchangerate-api">>
                  /\ o.result.success <=> (src.primary = "usd" \/ src.fallback = "vnd")
                  /\ src.primary = "usd" => "bank" \in DOMAIN o.result
                  /\ (src.primary # "usd" /\ src.fallback = "vnd") =>
                         "rate" \in DOMAIN o.result
                  /\ ~o.result.success =>
                         o.result.error = (IF src.primary = "no_usd"
                                           THEN "USD rate not found" ELSE "HTTPError")

\* The primary source had no USD entry and the fallback gave no rate: both
\* were asked and the failure carries the error of the primary.
C30_Witness ==
    /\ server = "music"
    /\ Returning({"get_usd_rate"})
    /\ ~last.result.success
    /\ Len(last.calls) = 2
    /\ last.result.error = "USD rate not found"

=============================================================================
